---- MODULE Spec2Model ----
(***************************************************************************)
(* Verification model of the repository's four source files:               *)
(*   gpu.py                      the GPU diagnostic script                 *)
(*   jax/.../sharding_test.py    setUpModule / tearDownModule,             *)
(*                               _check_sharding_annotations,              *)
(*                               _assert_sharding_annotations              *)
(*   jax/numpy/linalg.py         module initialisation and _init           *)
(* Each program has its own specification (SpecGpu, SpecEnv, SpecAssert,   *)
(* SpecCheck, SpecLinalg); the variables of the other programs stay idle.  *)
(***************************************************************************)
EXTENDS Integers, Sequences, FiniteSets, TLC

VARIABLES
  \* ---- gpu.py ----
  pc,               \* position of the script
  tf_importable,    \* does `import tensorflow` succeed on this machine
  torch_importable, \* does `import torch` succeed on this machine
  machine,          \* GPU configuration of the machine
  n_gpus,           \* number of GPUs physically installed
  tf_version,       \* tf.__version__
  stdout,           \* lines written to standard output
  exit_status,      \* <<>> while running, then <<the process exit status>>
  \* ---- sharding_test.py: setUpModule / tearDownModule ----
  environ_XLA_FLAGS,  \* os.environ["XLA_FLAGS"]: <<>> unset, <<s>> set to s
  prev_xla_flags,     \* module global prev_xla_flags: <<>> None, <<s>>
  xla_flags_0,        \* environ_XLA_FLAGS at module load (history)
  backend_cache,      \* xla_bridge.get_backend cache
  spmd_lowering,      \* jtu spmd lowering flag
  mod_phase,          \* "loaded", "set_up", "torn_down", "teardown_raised"
  \* ---- sharding_test.py: _assert_sharding_annotations ----
  hlo,                \* the HLO text (sequence of characters)
  expected,           \* sequence of regexps
  hlo_lines,          \* hlo.split("\n")
  line_idx,           \* number of lines of hlo_lines already iterated
  next_expected_idx,  \* as in the source (0-based)
  failure_msg,        \* as in the source
  as_result,          \* "called", "loop", "returned", "raised"
  \* ---- sharding_test.py: _check_sharding_annotations ----
  cs_args0,           \* `args` as passed by the caller
  cs_args,            \* the local `args` (rebound at line 122)
  num_variables,      \* keyword argument num_variables
  args_vars,          \* the local args_vars
  f_tf_wrapped,       \* TRUE when f_tf is the lambda of line 123
  device_under_test,  \* jtu.device_under_test()
  tf_invocations,     \* argument lists f_tf_base was invoked with
  cs_pc,              \* position in _check_sharding_annotations
  \* ---- jax/numpy/linalg.py ----
  np_linalg_items,    \* util.get_module_functions(np.linalg).items(), in order
  module_globals,     \* globals() of jax.numpy.linalg: name -> binding
  globals_0,          \* module_globals when _init is called (history)
  NOT_IMPLEMENTED,    \* the list _NOT_IMPLEMENTED
  item_idx,           \* number of items of the loop already iterated
  la_pc               \* "imports", "define", "init_loop", "del_init", "initialised"

gpuVars    == <<pc, tf_importable, torch_importable, machine, n_gpus,
                tf_version, stdout, exit_status>>
envVars    == <<environ_XLA_FLAGS, prev_xla_flags, xla_flags_0, backend_cache,
                spmd_lowering, mod_phase>>
assertVars == <<hlo, expected, hlo_lines, line_idx, next_expected_idx,
                failure_msg, as_result>>
checkVars  == <<cs_args0, cs_args, num_variables, args_vars, f_tf_wrapped,
                device_under_test, tf_invocations, cs_pc>>
linalgVars == <<np_linalg_items, module_globals, globals_0, NOT_IMPLEMENTED,
                item_idx, la_pc>>
vars == <<gpuVars, envVars, assertVars, checkVars, linalgVars>>

(***************************************************************************)
(* Bounds                                                                  *)
(***************************************************************************)
MaxGpus == 2
MaxFlagsLen == 3
MaxHloLen == 4
MaxExpected == 2
MaxArgs == 3
MaxNpFuncs == 3

(***************************************************************************)
(* Idle values of the programs a specification does not run                *)
(***************************************************************************)
IdleGpu ==
  /\ pc = "idle" /\ tf_importable = FALSE /\ torch_importable = FALSE
  /\ machine = "no_driver" /\ n_gpus = 0 /\ tf_version = "none"
  /\ stdout = <<>> /\ exit_status = <<>>

IdleEnv ==
  /\ environ_XLA_FLAGS = <<>> /\ prev_xla_flags = <<>> /\ xla_flags_0 = <<>>
  /\ backend_cache = "cached" /\ spmd_lowering = FALSE /\ mod_phase = "idle"

IdleAssert ==
  /\ hlo = <<>> /\ expected = <<>> /\ hlo_lines = <<>> /\ line_idx = 0
  /\ next_expected_idx = 0 /\ failure_msg = <<>> /\ as_result = "idle"

IdleCheck ==
  /\ cs_args0 = <<>> /\ cs_args = <<>> /\ num_variables = 0
  /\ args_vars = <<>> /\ f_tf_wrapped = FALSE /\ device_under_test = "cpu"
  /\ tf_invocations = <<>> /\ cs_pc = "idle"

IdleLinalg ==
  /\ np_linalg_items = <<>> /\ module_globals = <<>> /\ globals_0 = <<>>
  /\ NOT_IMPLEMENTED = <<>> /\ item_idx = 0 /\ la_pc = "idle"

(***************************************************************************)
(* gpu.py                                                                  *)
(***************************************************************************)
Machines == {"no_driver", "configured", "tf_only", "torch_only"}
TfVersions == {"2.11.0", "2.12.0"}

\* tf.config.list_physical_devices('GPU'): the GPUs tensorflow can see.
list_physical_devices(m, n) ==
  IF m \in {"configured", "tf_only"}
    THEN [i \in 1..n |-> <<"PhysicalDevice", "GPU", i - 1>>]
    ELSE <<>>

\* torch.cuda.is_available()
is_available(m) == m \in {"configured", "torch_only"}

InitGpu ==
  /\ pc = "import_tf"
  /\ tf_importable \in BOOLEAN
  /\ torch_importable \in BOOLEAN
  /\ machine \in Machines
  /\ n_gpus \in 0..MaxGpus
  /\ (machine = "no_driver") \/ (n_gpus >= 1)
  /\ tf_version \in TfVersions
  /\ stdout = <<>>
  /\ exit_status = <<>>

\* The machine does not change during a run, and the other programs are idle.
gpuEnvUnchanged ==
  UNCHANGED <<tf_importable, torch_importable, machine, n_gpus, tf_version,
              envVars, assertVars, checkVars, linalgVars>>

\* An unhandled exception: traceback, exit status 1.
Unhandled ==
  /\ pc' = "failed"
  /\ exit_status' = <<1>>
  /\ UNCHANGED stdout

\* line 7: import tensorflow as tf
ImportTensorflow ==
  /\ pc = "import_tf"
  /\ IF tf_importable
       THEN pc' = "print_version" /\ UNCHANGED <<stdout, exit_status>>
       ELSE Unhandled
  /\ gpuEnvUnchanged

\* line 8: print("TensorFlow version:", tf.__version__)
PrintVersion ==
  /\ pc = "print_version"
  /\ stdout' = Append(stdout, <<"TensorFlow version:", tf_version>>)
  /\ pc' = "print_devices"
  /\ UNCHANGED exit_status
  /\ gpuEnvUnchanged

\* Faulty variant: the query asks for a device type the machine never has.
PrintDevices_WrongType ==
  /\ pc = "print_devices"
  /\ stdout' = Append(stdout, <<"GPU device:", <<>> >>)
  /\ pc' = "import_torch"
  /\ UNCHANGED exit_status
  /\ gpuEnvUnchanged

\* Faulty variant: the script polls until tensorflow sees a GPU.
PrintDevices_Poll ==
  /\ pc = "print_devices"
  /\ IF list_physical_devices(machine, n_gpus) = <<>>
       THEN UNCHANGED <<pc, stdout>>
       ELSE /\ stdout' = Append(stdout,
                 <<"GPU device:", list_physical_devices(machine, n_gpus)>>)
            /\ pc' = "import_torch"
  /\ UNCHANGED exit_status
  /\ gpuEnvUnchanged

\* line 11: print("GPU device:", tf.config.list_physical_devices('GPU'))
PrintDevices ==
  /\ pc = "print_devices"
  /\ stdout' = Append(stdout,
                 <<"GPU device:", list_physical_devices(machine, n_gpus)>>)
  /\ pc' = "import_torch"
  /\ UNCHANGED exit_status
  /\ gpuEnvUnchanged

\* Faulty variant: the import failure is swallowed (try: import torch / except: pass).
ImportTorch_Caught ==
  /\ pc = "import_torch"
  /\ pc' = IF torch_importable THEN "print_cuda" ELSE "eof"
  /\ UNCHANGED <<stdout, exit_status>>
  /\ gpuEnvUnchanged

\* line 13: import torch
ImportTorch ==
  /\ pc = "import_torch"
  /\ IF torch_importable
       THEN pc' = "print_cuda" /\ UNCHANGED <<stdout, exit_status>>
       ELSE Unhandled
  /\ gpuEnvUnchanged

\* Faulty variant: the script asserts that a GPU is available.
PrintCuda_Assert ==
  /\ pc = "print_cuda"
  /\ IF is_available(machine)
       THEN /\ stdout' = Append(stdout, <<"torch.cuda", TRUE>>)
            /\ pc' = "eof"
            /\ UNCHANGED exit_status
       ELSE Unhandled
  /\ gpuEnvUnchanged

\* line 15: print("torch.cuda", torch.cuda.is_available())
PrintCuda ==
  /\ pc = "print_cuda"
  /\ stdout' = Append(stdout, <<"torch.cuda", is_available(machine)>>)
  /\ pc' = "eof"
  /\ UNCHANGED exit_status
  /\ gpuEnvUnchanged

\* Faulty variant: the exit status reports whether a GPU was found.
ScriptEnd_StatusFromFlag ==
  /\ pc = "eof"
  /\ pc' = "done"
  /\ exit_status' = IF is_available(machine) THEN <<0>> ELSE <<1>>
  /\ UNCHANGED stdout
  /\ gpuEnvUnchanged

\* end of the script: the interpreter exits with status 0
ScriptEnd ==
  /\ pc = "eof"
  /\ pc' = "done"
  /\ exit_status' = <<0>>
  /\ UNCHANGED stdout
  /\ gpuEnvUnchanged

NextGpu ==
  \/ ImportTensorflow
  \/ PrintVersion
  \/ PrintDevices
  \/ ImportTorch
  \/ PrintCuda
  \/ ScriptEnd

StartGpu == InitGpu /\ IdleEnv /\ IdleAssert /\ IdleCheck /\ IdleLinalg

SpecGpu == StartGpu /\ [][NextGpu]_vars

\* The interpreter runs the script's statements one after the other.
LiveSpecGpu == SpecGpu /\ WF_vars(NextGpu)

GpuFinal == pc \in {"done", "failed"}
LineTags == <<"TensorFlow version:", "GPU device:", "torch.cuda">>

\* C1: standard output is always a prefix of the three lines in the order
\* version, device list, availability flag; a run in which both imports
\* succeed ends only by a normal exit, with status 0, after all three lines,
\* whatever the device list and the flag are.
C1_OutputOrderThenExit0 ==
  /\ Len(stdout) <= 3
  /\ \A i \in 1..Len(stdout) : stdout[i][1] = LineTags[i]
  /\ (exit_status = <<0>>) => (Len(stdout) = 3 /\ pc = "done")
  /\ (tf_importable /\ torch_importable /\ GpuFinal)
       => (pc = "done" /\ exit_status = <<0>> /\ Len(stdout) = 3)

C1_Witness ==
  /\ pc = "done" /\ exit_status = <<0>>
  /\ stdout[2][2] = <<>> /\ stdout[3][2] = TRUE

\* C2: when the import of tensorflow or of torch fails, the run never passes
\* the failing import, never exits with status 0, and its only final state is
\* the unhandled failure with a non-zero exit status.
C2_ImportFailureUnhandled ==
  /\ ~tf_importable => pc \in {"import_tf", "failed"}
  /\ ~torch_importable => pc \notin {"print_cuda", "eof", "done"}
  /\ (~tf_importable \/ ~torch_importable)
       => /\ exit_status # <<0>>
          /\ GpuFinal => (pc = "failed" /\ exit_status = <<1>>)

C2_Witness ==
  /\ pc = "failed" /\ exit_status = <<1>>
  /\ tf_importable /\ ~torch_importable /\ Len(stdout) = 2

\* C3: on a machine without GPU drivers where both frameworks import, the
\* run never fails, and it ends having reported an empty device list and a
\* false availability flag, with exit status 0.
C3_NoGpuReportedNotFailed ==
  (machine = "no_driver" /\ tf_importable /\ torch_importable)
    => /\ pc # "failed"
       /\ GpuFinal => /\ stdout[2] = <<"GPU device:", <<>> >>
                       /\ stdout[3] = <<"torch.cuda", FALSE>>
                       /\ exit_status = <<0>>

C3_Witness ==
  /\ pc = "done" /\ machine = "no_driver" /\ Len(stdout) = 3

\* C4: on a machine with a correctly configured GPU, a run that ends
\* normally has reported a non-empty device list and a true flag.
C4_ConfiguredGpuReported ==
  (machine = "configured" /\ pc = "done")
    => /\ Len(stdout) = 3
       /\ Len(stdout[2][2]) >= 1
       /\ stdout[3][2] = TRUE

C4_Witness ==
  /\ pc = "done" /\ machine = "configured" /\ n_gpus = MaxGpus

\* C5: every run of the script eventually reaches a final state, the normal
\* exit or the unhandled failure.
C5_Terminates == <>GpuFinal

C5_Witness ==
  /\ GpuFinal /\ machine = "torch_only" /\ exit_status # <<>>

(***************************************************************************)
(* sharding_test.py: setUpModule / tearDownModule                          *)
(* A flags string is a sequence of tokens; an optional string is <<>>      *)
(* (None, or the variable unset) or <<s>>.                                 *)
(***************************************************************************)
FlagTokens ==
  {" ", "--", "xla_force_host_platform", "_device_count", "=8"}

FlagStrings == UNION {[1..n -> FlagTokens] : n \in 0..MaxFlagsLen}

\* "xla_force_host_platform_device_count"
DeviceCountFlag == <<"xla_force_host_platform", "_device_count">>

\* " --xla_force_host_platform_device_count=8"
ForceEightSuffix ==
  <<" ", "--", "xla_force_host_platform", "_device_count", "=8">>

\* Python's `needle in s` on strings
Contains(needle, s) ==
  \E i \in 1..(Len(s) - Len(needle) + 1) :
    SubSeq(s, i, i + Len(needle) - 1) = needle

\* Python's `opt or ""`
OrEmpty(opt) == IF opt = <<>> THEN <<>> ELSE opt[1]

InitEnv ==
  /\ environ_XLA_FLAGS \in {<<>>} \cup {<<s>> : s \in FlagStrings}
  /\ prev_xla_flags = <<>>
  /\ xla_flags_0 = environ_XLA_FLAGS
  /\ backend_cache \in {"cached", "cleared"}
  /\ spmd_lowering = FALSE
  /\ mod_phase = "loaded"

envOthersUnchanged ==
  UNCHANGED <<xla_flags_0, gpuVars, assertVars, checkVars, linalgVars>>

\* Faulty variant: the device count is forced whatever XLA_FLAGS already holds.
setUpModule_Override ==
  /\ mod_phase = "loaded"
  /\ prev_xla_flags' = environ_XLA_FLAGS
  /\ environ_XLA_FLAGS' = <<OrEmpty(environ_XLA_FLAGS) \o ForceEightSuffix>>
  /\ backend_cache' = "cleared"
  /\ spmd_lowering' = TRUE
  /\ mod_phase' = "set_up"
  /\ envOthersUnchanged

setUpModule ==
  /\ mod_phase = "loaded"
  /\ prev_xla_flags' = environ_XLA_FLAGS
  /\ LET flags_str == OrEmpty(environ_XLA_FLAGS) IN
       IF ~Contains(DeviceCountFlag, flags_str)
         THEN environ_XLA_FLAGS' = <<flags_str \o ForceEightSuffix>>
         ELSE UNCHANGED environ_XLA_FLAGS
  /\ backend_cache' = "cleared"
  /\ spmd_lowering' = TRUE
  /\ mod_phase' = "set_up"
  /\ envOthersUnchanged

\* del os.environ["XLA_FLAGS"] raises KeyError when the variable is unset;
\* the rest of tearDownModule is then not run.
teardownKeyError ==
  /\ mod_phase' = "teardown_raised"
  /\ UNCHANGED <<environ_XLA_FLAGS, backend_cache, spmd_lowering>>

\* Faulty variant: the saved value is written back also when it is None, as "".
tearDownModule_WriteEmpty ==
  /\ mod_phase = "set_up"
  /\ environ_XLA_FLAGS' = <<OrEmpty(prev_xla_flags)>>
  /\ backend_cache' = "cleared"
  /\ spmd_lowering' = FALSE
  /\ mod_phase' = "torn_down"
  /\ UNCHANGED prev_xla_flags
  /\ envOthersUnchanged

tearDownModule ==
  /\ mod_phase = "set_up"
  /\ IF prev_xla_flags = <<>> /\ environ_XLA_FLAGS = <<>>
       THEN teardownKeyError
       ELSE /\ environ_XLA_FLAGS' =
                 IF prev_xla_flags = <<>> THEN <<>> ELSE prev_xla_flags
            /\ backend_cache' = "cleared"
            /\ spmd_lowering' = FALSE
            /\ mod_phase' = "torn_down"
  /\ UNCHANGED prev_xla_flags
  /\ envOthersUnchanged

NextEnv ==
  \/ setUpModule
  \/ tearDownModule

StartEnv == IdleGpu /\ InitEnv /\ IdleAssert /\ IdleCheck /\ IdleLinalg

SpecEnv == StartEnv /\ [][NextEnv]_vars

\* C8: after setUpModule, if XLA_FLAGS already contained the device-count
\* flag it is exactly as before; otherwise it is the previous value (empty
\* if unset) followed by " --xla_force_host_platform_device_count=8", so the
\* previous value is a prefix of the new one.
C8_SetUpKeepsUserFlags ==
  (mod_phase = "set_up") =>
    LET old == OrEmpty(xla_flags_0) IN
      /\ prev_xla_flags = xla_flags_0
      /\ Contains(DeviceCountFlag, old) => environ_XLA_FLAGS = xla_flags_0
      /\ ~Contains(DeviceCountFlag, old) =>
           /\ environ_XLA_FLAGS = <<old \o ForceEightSuffix>>
           /\ SubSeq(environ_XLA_FLAGS[1], 1, Len(old)) = old

C8_Witness ==
  /\ mod_phase = "set_up"
  /\ xla_flags_0 # <<>>
  /\ Contains(DeviceCountFlag, xla_flags_0[1])
  /\ Len(xla_flags_0[1]) = 3

\* C9: after setUpModule followed by tearDownModule, XLA_FLAGS is exactly
\* what it was before setUpModule (unset, or the same string), and
\* tearDownModule has not raised.
C9_SetUpTearDownRestores ==
  /\ mod_phase # "teardown_raised"
  /\ (mod_phase = "torn_down") => environ_XLA_FLAGS = xla_flags_0

C9_Witness ==
  /\ mod_phase = "torn_down"
  /\ xla_flags_0 = <<>>
  /\ environ_XLA_FLAGS = <<>>

(***************************************************************************)
(* sharding_test.py: _assert_sharding_annotations                          *)
(* The HLO text is a sequence of characters; a line is a sequence of       *)
(* characters without "\n".                                                *)
(***************************************************************************)
HloChars == {"a", "b", "\n"}
HloTexts == UNION {[1..n -> HloChars] : n \in 0..MaxHloLen}

Regexps == {"a", "b", "^$", "a.*b"}
RegexpSeqs == UNION {[1..n -> Regexps] : n \in 1..MaxExpected}

\* hlo.split("\n")
RECURSIVE Split(_)
Split(s) ==
  IF s = <<>>
    THEN << <<>> >>
    ELSE LET rest == Split(Tail(s)) IN
           IF Head(s) = "\n"
             THEN << <<>> >> \o rest
             ELSE << <<Head(s)>> \o Head(rest) >> \o Tail(rest)

\* re.search(regexp, line) is not None
re_search(regexp, line) ==
  CASE regexp = "a"    -> \E i \in 1..Len(line) : line[i] = "a"
    [] regexp = "b"    -> \E i \in 1..Len(line) : line[i] = "b"
    [] regexp = "^$"   -> line = <<>>
    [] regexp = "a.*b" -> \E i \in 1..Len(line) : \E j \in (i + 1)..Len(line) :
                            line[i] = "a" /\ line[j] = "b"

InitAssert ==
  /\ hlo \in HloTexts
  /\ expected \in RegexpSeqs
  /\ hlo_lines = <<>>
  /\ line_idx = 0
  /\ next_expected_idx = 0
  /\ failure_msg = <<>>
  /\ as_result = "called"

assertOthersUnchanged ==
  UNCHANGED <<hlo, expected, gpuVars, envVars, checkVars, linalgVars>>

\* lines 152-156: the locals, and the split of the text into lines
AssertBegin ==
  /\ as_result = "called"
  /\ next_expected_idx' = 0
  /\ failure_msg' = << <<"Cannot find some expected sharding annotations">> >>
  /\ hlo_lines' = Split(hlo)
  /\ line_idx' = 0
  /\ as_result' = "loop"
  /\ assertOthersUnchanged

\* Faulty variant: after a match the same line is tried against the next regexp.
AssertLoopStep_SameLine ==
  /\ as_result = "loop"
  /\ line_idx < Len(hlo_lines)
  /\ LET hlo_line == hlo_lines[line_idx + 1]
         regexp   == expected[next_expected_idx + 1]
     IN IF re_search(regexp, hlo_line)
          THEN /\ failure_msg' = failure_msg \o
                    << <<"line", hlo_line>>,
                       <<"found", next_expected_idx, regexp>> >>
               /\ next_expected_idx' = next_expected_idx + 1
               /\ as_result' = IF next_expected_idx + 1 >= Len(expected)
                                 THEN "returned" ELSE "loop"
               /\ UNCHANGED line_idx
          ELSE /\ failure_msg' = Append(failure_msg, <<"line", hlo_line>>)
               /\ line_idx' = line_idx + 1
               /\ UNCHANGED <<next_expected_idx, as_result>>
  /\ UNCHANGED hlo_lines
  /\ assertOthersUnchanged

\* lines 156-163: one iteration of the for loop
AssertLoopStep ==
  /\ as_result = "loop"
  /\ line_idx < Len(hlo_lines)
  /\ LET hlo_line == hlo_lines[line_idx + 1]
         regexp   == expected[next_expected_idx + 1]
     IN IF re_search(regexp, hlo_line)
          THEN /\ failure_msg' = failure_msg \o
                    << <<"line", hlo_line>>,
                       <<"found", next_expected_idx, regexp>> >>
               /\ next_expected_idx' = next_expected_idx + 1
               /\ as_result' = IF next_expected_idx + 1 >= Len(expected)
                                 THEN "returned" ELSE "loop"
          ELSE /\ failure_msg' = Append(failure_msg, <<"line", hlo_line>>)
               /\ UNCHANGED <<next_expected_idx, as_result>>
  /\ line_idx' = line_idx + 1
  /\ UNCHANGED hlo_lines
  /\ assertOthersUnchanged

\* lines 164-167: the for loop ended without break
AssertLoopElse ==
  /\ as_result = "loop"
  /\ line_idx = Len(hlo_lines)
  /\ failure_msg' = Append(failure_msg,
       <<"notfound", next_expected_idx, expected[next_expected_idx + 1]>>)
  /\ as_result' = "raised"
  /\ UNCHANGED <<hlo_lines, line_idx, next_expected_idx>>
  /\ assertOthersUnchanged

NextAssert ==
  \/ AssertBegin
  \/ AssertLoopStep
  \/ AssertLoopElse

StartAssert == IdleGpu /\ IdleEnv /\ InitAssert /\ IdleCheck /\ IdleLinalg

SpecAssert == StartAssert /\ [][NextAssert]_vars

\* Each regexp of exp matches a line of lines, in order: there are strictly
\* increasing positions, one per regexp.
OrderedMatch(lines, exp) ==
  \E f \in [1..Len(exp) -> 1..Len(lines)] :
    /\ \A i \in 1..Len(exp) : \A j \in (i + 1)..Len(exp) : f[i] < f[j]
    /\ \A i \in 1..Len(exp) : re_search(exp[i], lines[f[i]])

\* The (0-based) index of the first regexp that cannot be found in order.
FirstNotFound(lines, exp) ==
  CHOOSE m \in 0..(Len(exp) - 1) :
    /\ OrderedMatch(lines, SubSeq(exp, 1, m))
    /\ ~OrderedMatch(lines, SubSeq(exp, 1, m + 1))

\* C6: _assert_sharding_annotations returns iff the regexps of expected match
\* lines of the text at strictly increasing positions; otherwise it raises,
\* and the last line of the failure message names the index of the first
\* regexp that was not found.
C6_ReturnsIffOrderedMatch ==
  /\ (as_result = "returned") => OrderedMatch(Split(hlo), expected)
  /\ (as_result = "raised") =>
       /\ ~OrderedMatch(Split(hlo), expected)
       /\ failure_msg[Len(failure_msg)] =
            <<"notfound", FirstNotFound(Split(hlo), expected),
              expected[FirstNotFound(Split(hlo), expected) + 1]>>

C6_Witness ==
  /\ as_result = "raised"
  /\ Len(hlo_lines) >= 2
  /\ next_expected_idx = 1
  /\ \E i \in 1..Len(hlo_lines) : re_search(expected[2], hlo_lines[i])

(***************************************************************************)
(* sharding_test.py: _check_sharding_annotations                           *)
(* An argument passed to the converted function is <<"Variable", a>>       *)
(* (tf.Variable(a)) or <<"raw", a>>.                                       *)
(***************************************************************************)
ArgValues == {"x", "y"}
ArgLists == UNION {[1..n -> ArgValues] : n \in 0..MaxArgs}

Variable(a) == <<"Variable", a>>
Raw(a) == <<"raw", a>>

\* f_tf(*inputs): f_tf_base(*args_vars, *inputs) for the lambda of line 123,
\* f_tf_base(*inputs) otherwise
f_tf(inputs) ==
  IF f_tf_wrapped
    THEN args_vars \o [i \in 1..Len(inputs) |-> Raw(inputs[i])]
    ELSE [i \in 1..Len(inputs) |-> Raw(inputs[i])]

InitCheck ==
  /\ cs_args0 \in ArgLists
  /\ cs_args = cs_args0
  /\ num_variables \in 0..Len(cs_args0)
  /\ args_vars = <<>>
  /\ f_tf_wrapped = FALSE
  /\ device_under_test \in {"cpu", "tpu", "gpu"}
  /\ tf_invocations = <<>>
  /\ cs_pc = "entry"

checkOthersUnchanged ==
  UNCHANGED <<cs_args0, num_variables, device_under_test,
              gpuVars, envVars, assertVars, linalgVars>>

\* lines 91-92
CheckDevice ==
  /\ cs_pc = "entry"
  /\ cs_pc' = IF device_under_test = "gpu" THEN "skipped" ELSE "jax_hlo"
  /\ UNCHANGED <<cs_args, args_vars, f_tf_wrapped, tf_invocations>>
  /\ checkOthersUnchanged

\* lines 94-97: the JAX HLO is the compiler's; the assertion passes or raises
JaxHloAssert ==
  /\ cs_pc = "jax_hlo"
  /\ \E found \in BOOLEAN :
       cs_pc' = IF ~found THEN "failed"
                ELSE IF device_under_test = "tpu" THEN "jax_opt" ELSE "convert"
  /\ UNCHANGED <<cs_args, args_vars, f_tf_wrapped, tf_invocations>>
  /\ checkOthersUnchanged

\* lines 100-117: on TPU only
JaxOptimizedAssert ==
  /\ cs_pc = "jax_opt"
  /\ \E found \in BOOLEAN :
       cs_pc' = IF found THEN "convert" ELSE "failed"
  /\ UNCHANGED <<cs_args, args_vars, f_tf_wrapped, tf_invocations>>
  /\ checkOthersUnchanged

\* lines 119-125
Convert ==
  /\ cs_pc = "convert"
  /\ IF num_variables > 0
       THEN /\ args_vars' = [i \in 1..num_variables |-> Variable(cs_args[i])]
            /\ cs_args' = SubSeq(cs_args, 1, num_variables)
            /\ f_tf_wrapped' = TRUE
       ELSE /\ f_tf_wrapped' = FALSE
            /\ UNCHANGED <<cs_args, args_vars>>
  /\ cs_pc' = "trace"
  /\ UNCHANGED tf_invocations
  /\ checkOthersUnchanged

\* lines 126-129: f_tf_fun.get_concrete_function(*args)
TraceConcrete ==
  /\ cs_pc = "trace"
  /\ tf_invocations' = Append(tf_invocations, f_tf(cs_args))
  /\ cs_pc' = "tf_hlo"
  /\ UNCHANGED <<cs_args, args_vars, f_tf_wrapped>>
  /\ checkOthersUnchanged

\* lines 130-135: experimental_get_compiler_ir(*args), then the assertion
TfHloAssert ==
  /\ cs_pc = "tf_hlo"
  /\ tf_invocations' = Append(tf_invocations, f_tf(cs_args))
  /\ \E found \in BOOLEAN :
       cs_pc' = IF found THEN "tf_opt" ELSE "failed"
  /\ UNCHANGED <<cs_args, args_vars, f_tf_wrapped>>
  /\ checkOthersUnchanged

\* lines 136-141: the optimized HLO of a second tf.function
TfOptimizedHlo ==
  /\ cs_pc = "tf_opt"
  /\ tf_invocations' = Append(tf_invocations, f_tf(cs_args))
  /\ cs_pc' = "done"
  /\ UNCHANGED <<cs_args, args_vars, f_tf_wrapped>>
  /\ checkOthersUnchanged

NextCheck ==
  \/ CheckDevice
  \/ JaxHloAssert
  \/ JaxOptimizedAssert
  \/ Convert
  \/ TraceConcrete
  \/ TfHloAssert
  \/ TfOptimizedHlo

StartCheck == IdleGpu /\ IdleEnv /\ IdleAssert /\ InitCheck /\ IdleLinalg

SpecCheck == StartCheck /\ [][NextCheck]_vars

\* The argument list the docstring of num_variables describes: the first
\* num_variables elements of args as tf.Variable, then the remaining ones.
IntendedInvocation ==
  [i \in 1..Len(cs_args0) |->
     IF i <= num_variables THEN Variable(cs_args0[i]) ELSE Raw(cs_args0[i])]

\* C7: every invocation of the converted function passes exactly len(args)
\* arguments: the first num_variables elements of args wrapped as
\* tf.Variable, followed by the remaining elements unwrapped.
C7_EveryArgPassedOnce ==
  \A n \in 1..Len(tf_invocations) : tf_invocations[n] = IntendedInvocation

(***************************************************************************)
(* jax/numpy/linalg.py: module initialisation                              *)
(* globals() is a function from the defined names to their bindings.       *)
(***************************************************************************)
\* lines 15-38: the names imported from jax._src
Reexported ==
  {"cholesky", "det", "eig", "eigh", "eigvals", "eigvalsh", "inv", "lstsq",
   "matrix_power", "matrix_rank", "norm", "pinv", "qr", "slogdet", "solve",
   "svd", "cond", "multi_dot", "tensorinv", "tensorsolve"}

\* Names numpy.linalg may define as functions, depending on its version
\* (numpy.linalg has no function named _init or _NOT_IMPLEMENTED).
NpLinalgNames == {"det", "cond", "svdvals", "vecdot", "matrix_transpose"}

\* util.get_module_functions(np.linalg).items(): a dict's items, so no name
\* occurs twice; the order is the dict's.
NpLinalgItemLists ==
  {[i \in 1..Len(names) |-> <<names[i], <<"np.linalg", names[i]>> >>] :
     names \in {q \in UNION {[1..n -> NpLinalgNames] : n \in 0..MaxNpFuncs} :
                  \A i \in 1..Len(q) : \A j \in 1..Len(q) :
                    (i # j) => (q[i] # q[j])}}

\* lax_numpy._not_implemented(func)
not_implemented(func) == <<"not_implemented", func>>

InitLinalg ==
  /\ np_linalg_items \in NpLinalgItemLists
  /\ module_globals = [n \in {"__name__"} |-> <<"str", "jax.numpy.linalg">>]
  /\ globals_0 = <<>>
  /\ NOT_IMPLEMENTED = <<>>
  /\ item_idx = 0
  /\ la_pc = "imports"

linalgOthersUnchanged ==
  UNCHANGED <<np_linalg_items, gpuVars, envVars, assertVars, checkVars>>

\* lines 15-38
ImportReexports ==
  /\ la_pc = "imports"
  /\ module_globals' =
       [n \in DOMAIN module_globals \cup Reexported |->
          IF n \in Reexported THEN <<"jax._src", n>> ELSE module_globals[n]]
  /\ la_pc' = "define"
  /\ UNCHANGED <<globals_0, NOT_IMPLEMENTED, item_idx>>
  /\ linalgOthersUnchanged

\* lines 42-43 and the call of line 53
DefineAndCallInit ==
  /\ la_pc = "define"
  /\ NOT_IMPLEMENTED' = <<>>
  /\ module_globals' =
       [n \in DOMAIN module_globals \cup {"_NOT_IMPLEMENTED", "_init"} |->
          IF n = "_NOT_IMPLEMENTED" THEN <<"list", "_NOT_IMPLEMENTED">>
          ELSE IF n = "_init" THEN <<"function", "_init">>
          ELSE module_globals[n]]
  /\ globals_0' = module_globals'
  /\ item_idx' = 0
  /\ la_pc' = "init_loop"
  /\ linalgOthersUnchanged

\* Faulty variant: the stub is bound without the test `name not in globals()`.
InitLoopStep_NoGuard ==
  /\ la_pc = "init_loop"
  /\ item_idx < Len(np_linalg_items)
  /\ LET name == np_linalg_items[item_idx + 1][1]
         func == np_linalg_items[item_idx + 1][2]
     IN /\ NOT_IMPLEMENTED' = Append(NOT_IMPLEMENTED, name)
        /\ module_globals' =
             [n \in DOMAIN module_globals \cup {name} |->
                IF n = name THEN not_implemented(func)
                ELSE module_globals[n]]
  /\ item_idx' = item_idx + 1
  /\ UNCHANGED <<globals_0, la_pc>>
  /\ linalgOthersUnchanged

\* lines 48-51: one iteration of the loop of _init
InitLoopStep ==
  /\ la_pc = "init_loop"
  /\ item_idx < Len(np_linalg_items)
  /\ LET name == np_linalg_items[item_idx + 1][1]
         func == np_linalg_items[item_idx + 1][2]
     IN IF name \notin DOMAIN module_globals
          THEN /\ NOT_IMPLEMENTED' = Append(NOT_IMPLEMENTED, name)
               /\ module_globals' =
                    [n \in DOMAIN module_globals \cup {name} |->
                       IF n = name THEN not_implemented(func)
                       ELSE module_globals[n]]
          ELSE UNCHANGED <<NOT_IMPLEMENTED, module_globals>>
  /\ item_idx' = item_idx + 1
  /\ UNCHANGED <<globals_0, la_pc>>
  /\ linalgOthersUnchanged

\* _init returns (line 53), then line 54: del _init
ReturnAndDelInit ==
  /\ la_pc = "init_loop"
  /\ item_idx = Len(np_linalg_items)
  /\ module_globals' =
       [n \in DOMAIN module_globals \ {"_init"} |-> module_globals[n]]
  /\ la_pc' = "initialised"
  /\ UNCHANGED <<globals_0, NOT_IMPLEMENTED, item_idx>>
  /\ linalgOthersUnchanged

NextLinalg ==
  \/ ImportReexports
  \/ DefineAndCallInit
  \/ InitLoopStep
  \/ ReturnAndDelInit

StartLinalg == IdleGpu /\ IdleEnv /\ IdleAssert /\ IdleCheck /\ InitLinalg

SpecLinalg == StartLinalg /\ [][NextLinalg]_vars

NpFunctionNames == {np_linalg_items[i][1] : i \in 1..Len(np_linalg_items)}
NotYetDefined == NpFunctionNames \ DOMAIN globals_0

\* C10: once the module is initialised, _NOT_IMPLEMENTED holds, without
\* duplicates, exactly the numpy.linalg function names that were not defined
\* when _init was called; each is bound to its not-implemented stub; every
\* numpy.linalg function name is defined; and every name defined before
\* (other than the deleted _init) keeps its binding.
C10_NotImplementedExact ==
  (la_pc = "initialised") =>
    /\ {NOT_IMPLEMENTED[i] : i \in 1..Len(NOT_IMPLEMENTED)} = NotYetDefined
    /\ Len(NOT_IMPLEMENTED) = Cardinality(NotYetDefined)
    /\ \A n \in NotYetDefined :
         module_globals[n] = not_implemented(<<"np.linalg", n>>)
    /\ NpFunctionNames \subseteq DOMAIN module_globals
    /\ \A n \in DOMAIN globals_0 \ {"_init"} :
         n \in DOMAIN module_globals /\ module_globals[n] = globals_0[n]

C10_Witness ==
  /\ la_pc = "initialised"
  /\ Len(NOT_IMPLEMENTED) = 2
  /\ Len(np_linalg_items) = 3

====
